---- MODULE Spec2Model ----
(***************************************************************************)
(* A model of My-Searchbot: the DuckDuckGo news search of helper.py, the   *)
(* TTL cache of app1.py that stands in front of it, and the path of        *)
(* run_app from a search result to the context of the language-model call. *)
(*                                                                         *)
(* Text is a sequence of tokens.  A query is a sequence of one-character   *)
(* tokens; a display string is a sequence of literal pieces; the empty     *)
(* sequence is the empty string.                                           *)
(***************************************************************************)
EXTENDS Integers, Sequences, FiniteSets, TLC

VARIABLES
    \* ---- one call of the search function, its rendering, one run of run_app
    query,          \* the query text / the user's chat input
    num,            \* the result limit (sidebar "Number of results")
    web,            \* what the network and the HTML parser do for this request
    pc,             \* "start", "searched", "rendered", "answered"
    payload,        \* the dict the search function returned
    requests,       \* number of requests.get calls made
    display,        \* the display string of the rendering step
    settings,       \* run_app: the sidebar settings used
    context,        \* run_app: the context handed to ChatBot.stream_answer
    messages,       \* run_app: the message list _build_messages built
    \* ---- the TTL cache
    now,            \* time.time()
    _SEARCH_CACHE,  \* key -> [ts, results]
    lastCall,       \* the most recent call of get_search_results_realtime
    callsOf,        \* key -> the most recent call for that key (history)
    ncalls,         \* number of calls made (history)
    wanted,         \* the sidebar settings of the callers (history)
    \* ---- callers running get_search_results_realtime concurrently
    callers,        \* caller -> its position and local variables
    fetches,        \* the fetches made so far (history)
    origin          \* key -> the fetch whose outcome the key's entry holds (history)

searchVars == <<query, num, web, pc, payload, requests, display, settings, context, messages>>
keyVars == <<ncalls, wanted>>
raceVars == <<callers, fetches, origin>>
cacheVars == <<now, _SEARCH_CACHE, lastCall, callsOf, keyVars, raceVars>>
vars == <<searchVars, cacheVars>>

(***************************************************************************)
(* Bounds                                                                  *)
(***************************************************************************)
MaxBlocks == 3      \* result blocks on a page
MaxNum == 3         \* largest result limit tried
MaxPeriods == 1     \* the clock runs over 0 .. (MaxPeriods + 1) TTL periods
MaxKeyCalls == 2    \* calls made when the cache key is examined
MaxCallers == 2     \* concurrent callers

(***************************************************************************)
(* Text                                                                    *)
(***************************************************************************)
NoneValue == <<"<None>">>

Whitespace == {" "}

\* The inputs: None, empty, whitespace only, padded on either side, and two
\* texts that differ only in case.
Queries ==
    { NoneValue, <<>>, <<" ">>,
      <<"a">>, <<" ", "a">>, <<"a", " ">>, <<" ", "a", " ">>,
      <<"A">> }

RECURSIVE lstrip(_)
lstrip(s) ==
    IF s # <<>> /\ Head(s) \in Whitespace THEN lstrip(Tail(s)) ELSE s

RECURSIVE rstrip(_)
rstrip(s) ==
    IF s # <<>> /\ s[Len(s)] \in Whitespace
    THEN rstrip(SubSeq(s, 1, Len(s) - 1))
    ELSE s

\* The key folded to lower case after trimming.
strip_casefold(s) ==
    LET t == rstrip(lstrip(s))
    IN  [i \in 1..Len(t) |-> IF t[i] = "A" THEN "a" ELSE t[i]]

\* A query used as typed: the .strip() forgotten.
strip_forgotten(s) == s

\* str.strip()
strip(s) == rstrip(lstrip(s))

\* (query or ""): None and the empty string are falsy
or_empty(s) == IF s = NoneValue \/ s = <<>> THEN <<>> ELSE s

(***************************************************************************)
(* The result page                                                         *)
(***************************************************************************)
NoTag == "<no tag>"

DirectHref == "https://example.com/a"
RedirectHref == "//duckduckgo.com/l/?uddg=https%3A%2F%2Fexample.com%2Fa&rut=1"

\* A div.result__body: whether it holds an a.result__a, that link's href,
\* and the text of its a.result__snippet (NoTag: no such element).
TitledBlocks ==
    [ title_tag : {TRUE},
      href : {DirectHref, RedirectHref},
      snippet : {NoTag, "", "Some summary."} ]

UntitledBlocks ==
    [ title_tag : {FALSE}, href : {""}, snippet : {NoTag} ]

Blocks == TitledBlocks \cup UntitledBlocks

Pages == UNION { [1..n -> Blocks] : n \in 0..MaxBlocks }

\* The title texts of a page are pairwise distinct: the block at document
\* position i (1-based) is titled "T<i>".
TitleText(i) == "T" \o ToString(i)

\* What requests.get and BeautifulSoup do: a response with a status code
\* and a page, or an exception raised by the transport or by the parser.
Webs ==
    { [status |-> s, raises |-> "none", blocks |-> <<>>] : s \in {204, 404} }
    \cup { [status |-> 0, raises |-> e, blocks |-> <<>>] :
             e \in {"ConnectionError", "Timeout"} }
    \cup { [status |-> 200, raises |-> "parser", blocks |-> <<>>] }
    \cup { [status |-> 200, raises |-> "none", blocks |-> p] : p \in Pages }

(***************************************************************************)
(* helper.py: invoke_duckduckgo_news_search                                *)
(***************************************************************************)
DefaultNum == 5

EmptyQueryMessage == "Empty query"
FetchFailedMessage == "Failed to fetch news results"
NoResultsMessage == "No search results available."
NoSummary == "No summary available."

ErrorDict(m) == [status |-> "error", message |-> m]
SuccessDict(rs) == [status |-> "success", results |-> rs]

\* re.search(r"uddg=(https?%3A%2F%2F[^&]+)", raw_link), then unquote
DecodeLink(raw_link) ==
    IF raw_link = RedirectHref THEN DirectHref ELSE raw_link

\* seq[:n] for n >= 0
SliceTo(seq, n) ==
    SubSeq(seq, 1, IF n < Len(seq) THEN n ELSE Len(seq))

\* snippet.get_text(strip=True) if snippet else "No summary available."
\* (a Tag is truthy whatever its contents)
Summary(snippet) == IF snippet # NoTag THEN snippet ELSE NoSummary

\* for idx, result in enumerate(search_results[:num]): idx counts from 0,
\* acc is the list of records appended so far.
RECURSIVE CollectResults(_, _, _)
CollectResults(sliced, idx, acc) ==
    IF idx >= Len(sliced) THEN acc
    ELSE LET result == sliced[idx + 1] IN
         IF ~result.title_tag
         THEN CollectResults(sliced, idx + 1, acc)
         ELSE CollectResults(sliced, idx + 1,
                Append(acc,
                  [ num |-> idx + 1,
                    title |-> TitleText(idx + 1),
                    link |-> DecodeLink(result.href),
                    summary |-> Summary(result.snippet) ]))

\* The blocks the loop looks at.
LoopBlocks(search_results, n) == SliceTo(search_results, n)

\* Without the except branch the exception leaves the function.
ExceptionPropagates == [status |-> "raised", exception |-> "Exception"]

\* The outcome when requests.get or the parser raises: the except branch.
ExceptionOutcome == ErrorDict(NoResultsMessage)

\* The whole function: [ret |-> the dict returned, requests |-> requests.get calls]
invoke_duckduckgo_news_search(qy, n, w) ==
    LET q == strip(or_empty(qy)) IN
    IF q = <<>>
    THEN [ret |-> ErrorDict(EmptyQueryMessage), requests |-> 0]
    ELSE IF w.raises \in {"ConnectionError", "Timeout"}
    THEN [ret |-> ExceptionOutcome, requests |-> 1]
    ELSE IF w.status # 200
    THEN [ret |-> ErrorDict(FetchFailedMessage), requests |-> 1]
    ELSE IF w.raises = "parser"
    THEN [ret |-> ExceptionOutcome, requests |-> 1]
    ELSE LET results == CollectResults(LoopBlocks(w.blocks, n), 0, <<>>) IN
         IF results # <<>>
         THEN [ret |-> SuccessDict(results), requests |-> 1]
         ELSE [ret |-> ErrorDict(NoResultsMessage), requests |-> 1]

(***************************************************************************)
(* helper.py: format_news_results_html                                     *)
(***************************************************************************)
HtmlItem(item) ==
    "<p><b>" \o ToString(item.num) \o ". <a href='" \o item.link
        \o "' target='_blank'>" \o item.title \o "</a></b><br/>"
        \o item.summary \o "</p>"

\* A dict has "results" only when it is a success dict: .get("results", [])
GetResults(search_payload) ==
    IF "results" \in DOMAIN search_payload THEN search_payload.results ELSE <<>>

format_news_results_html(search_payload) ==
    IF search_payload.status # "success" THEN <<>>
    ELSE LET items == GetResults(search_payload) IN
         IF items = <<>> THEN <<>>
         ELSE <<"<div>">> \o [i \in 1..Len(items) |-> HtmlItem(items[i])]
                \o <<"</div>">>

(***************************************************************************)
(* app1.py: fetch_search_results, format_results                           *)
(***************************************************************************)
NoResultsPlaceholder == "**No search results available.**"
NoSearchPlaceholder == "No search performed."

StartsWithHttp(link) == link = DirectHref

\* One row of the Markdown table (every summary of the model is shorter
\* than the 100 characters at which a row is cut).
TableRow(index, res) ==
    "| " \o ToString(index) \o " | "
        \o (IF StartsWithHttp(res.link)
            THEN "[" \o res.title \o "](" \o res.link \o ")"
            ELSE res.title)
        \o " | " \o res.summary \o " |\n"

format_results(results) ==
    <<"| # | Title | Summary |\n|---|------|---------|\n">>
        \o [i \in 1..Len(results) |-> TableRow(i, results[i])]

\* inspect.iscoroutine: a dict is no coroutine
iscoroutine(value) == "cr_frame" \in DOMAIN value

\* asyncio.run(main): ValueError unless main is a coroutine
asyncio_run(main) ==
    IF iscoroutine(main)
    THEN [raised |-> FALSE, value |-> main.result]
    ELSE [raised |-> TRUE, value |-> main]

NoPayload == [status |-> "none"]

\* [ret |-> the string returned, searched |-> the dict the search function
\*  returned (NoPayload when it was not called), requests |-> network calls]
fetch_search_results(qy, st, w) ==
    IF st.only_chatbot
    THEN [ret |-> <<NoSearchPlaceholder>>, searched |-> NoPayload, requests |-> 0]
    ELSE LET call == invoke_duckduckgo_news_search(qy, st.num, w)
             ran == asyncio_run(call.ret)
         IN  IF ~ran.raised /\ ran.value.status = "success"
             THEN [ret |-> format_results(ran.value.results),
                   searched |-> call.ret, requests |-> call.requests]
             ELSE [ret |-> <<NoResultsPlaceholder>>,
                   searched |-> call.ret, requests |-> call.requests]

(***************************************************************************)
(* app1.py: run_app; helper.py: ChatBot._build_messages                    *)
(***************************************************************************)
\* str.lower() of the pieces a display string is made of
Lower(piece) ==
    CASE piece = NoResultsPlaceholder -> "**no search results available.**"
      [] piece = NoSearchPlaceholder -> "no search performed."
      [] OTHER -> piece

\* "no search results available" in t
ContainsNoResultsPhrase(t) ==
    \E i \in 1..Len(t) : t[i] = "**no search results available.**"

is_placeholder_no_results(text) ==
    LET stripped == strip(text)
        t == [i \in 1..Len(stripped) |-> Lower(stripped[i])]
    IN  t = <<>> \/ ContainsNoResultsPhrase(t)

SystemPrompt == "You are a helpful assistant. Answer clearly and concisely."
ContextPrefix == "Use the following web context if it is relevant:\n\n"

_build_messages(user_input, ctxt) ==
    LET history == << [role |-> "system", content |-> <<SystemPrompt>>] >>
        ctx == strip(or_empty(ctxt))
    IN  (IF ctx # <<>>
         THEN Append(history, [role |-> "system", content |-> <<ContextPrefix>> \o ctx])
         ELSE history)
        \o << [role |-> "user", content |-> user_input] >>

\* The context run_app hands to ChatBot().stream_answer
SearchResultsStr(search_results) ==
    IF is_placeholder_no_results(search_results) THEN <<>> ELSE search_results

(***************************************************************************)
(* One request through the search function, the renderer and run_app       *)
(***************************************************************************)
NoSettings == [only_chatbot |-> FALSE, num |-> 0, location |-> "", time_filter |-> ""]

Init ==
    /\ query \in Queries
    /\ num \in 1..MaxNum
    /\ web \in Webs
    /\ pc = "start"
    /\ payload = NoPayload
    /\ requests = 0
    /\ display = <<>>
    /\ settings = NoSettings
    /\ context = <<>>
    /\ messages = <<>>
    /\ now = 0
    /\ _SEARCH_CACHE = <<>>
    /\ lastCall = [kind |-> "none"]
    /\ callsOf = <<>>
    /\ ncalls = 0
    /\ wanted = [last |-> NoSettings, prev |-> NoSettings, of |-> <<>>]
    /\ callers = [c \in 1..MaxCallers |-> [pc |-> "idle"]]
    /\ fetches = {}
    /\ origin = <<>>

\* the call invoke_duckduckgo_news_search(query, num)
Search ==
    /\ pc = "start"
    /\ LET call == invoke_duckduckgo_news_search(query, num, web) IN
         /\ payload' = call.ret
         /\ requests' = call.requests
    /\ pc' = "searched"
    /\ UNCHANGED <<query, num, web, display, settings, context, messages, cacheVars>>

\* format_news_results_html(payload)
Render ==
    /\ pc = "searched"
    /\ display' = format_news_results_html(payload)
    /\ pc' = "rendered"
    /\ UNCHANGED <<query, num, web, payload, requests, settings, context, messages, cacheVars>>

\* run_app with a chat input: "if user_input:" needs a non-empty string
RunApp(only_chatbot) ==
    /\ pc = "start"
    /\ or_empty(query) # <<>>
    /\ LET st == [only_chatbot |-> only_chatbot, num |-> num,
                  location |-> "us-en", time_filter |-> "w"]
           fetched == fetch_search_results(query, st, web)
           search_results_str == SearchResultsStr(fetched.ret)
       IN  /\ settings' = st
           /\ payload' = fetched.searched
           /\ requests' = fetched.requests
           /\ display' = fetched.ret
           /\ context' = search_results_str
           /\ messages' = _build_messages(query, search_results_str)
    /\ pc' = "answered"
    /\ UNCHANGED <<query, num, web, cacheVars>>

Next ==
    \/ Search
    \/ Render
    \/ \E only_chatbot \in BOOLEAN : RunApp(only_chatbot)

Spec == Init /\ [][Next]_vars

(***************************************************************************)
(* app1.py: the TTL cache, get_search_results_realtime                     *)
(***************************************************************************)
SEARCH_TTL_SEC == 60

\* The clock values tried: the start and the last second of each TTL period.
Times ==
    { k * SEARCH_TTL_SEC + d : k \in 0..MaxPeriods, d \in {0, SEARCH_TTL_SEC - 1} }

\* What the network does for the fetches made through the cache: a 404
\* (a failure outcome) or a page with one result (a success outcome).
CacheWebs ==
    { [status |-> 404, raises |-> "none", blocks |-> <<>>],
      [status |-> 200, raises |-> "none",
       blocks |-> << [title_tag |-> TRUE, href |-> DirectHref,
                      snippet |-> "Some summary."] >>] }

NoEntry == [absent |-> TRUE]
NoCall == [kind |-> "none"]
EmptyList == [list |-> <<>>]

\* _SEARCH_CACHE[q] when q is a key, NoEntry otherwise
EntryOf(cache, q) == IF q \in DOMAIN cache THEN cache[q] ELSE NoEntry

\* The comparison with the TTL off by one: an entry of age SEARCH_TTL_SEC
\* still counts as fresh.
IsFreshInclusive(cache, q, t) ==
    q \in DOMAIN cache /\ (t - cache[q].ts) <= SEARCH_TTL_SEC

\* if q in _SEARCH_CACHE: ts, results = ...; if (now - ts) < SEARCH_TTL_SEC
IsFresh(cache, q, t) ==
    q \in DOMAIN cache /\ (t - cache[q].ts) < SEARCH_TTL_SEC

\* Only a success is stored: a failed fetch is retried by the next call.
StoreOnlySuccess(cache, q, t, results) ==
    IF results.status = "success"
    THEN (q :> [ts |-> t, results |-> results]) @@ cache
    ELSE cache

\* The store rebinds the dict: the entries of all other keys are lost.
StoreAndDropOthers(cache, q, t, results) ==
    (q :> [ts |-> t, results |-> results])

\* _SEARCH_CACHE[q] = (now, results)
StoreEntry(cache, q, t, results) ==
    (q :> [ts |-> t, results |-> results]) @@ cache

PrevCall(calls, q) == IF q \in DOMAIN calls THEN calls[q] ELSE NoCall

\* One whole call.  fetched counts the invocations of the search function,
\* before is the key's entry when the call began, prev the preceding call
\* for the same key.
GetSearchResultsRealtime(qy, w) ==
    LET q == strip(or_empty(qy)) IN
    IF q = <<>>
    THEN /\ lastCall' = [kind |-> "call", query |-> qy, key |-> q, at |-> now,
                         before |-> NoEntry, prev |-> NoCall, fetched |-> 0,
                         got |-> NoPayload, ret |-> EmptyList]
         /\ UNCHANGED <<now, _SEARCH_CACHE, callsOf>>
    ELSE IF IsFresh(_SEARCH_CACHE, q, now)
    THEN /\ lastCall' = [kind |-> "call", query |-> qy, key |-> q, at |-> now,
                         before |-> EntryOf(_SEARCH_CACHE, q),
                         prev |-> PrevCall(callsOf, q), fetched |-> 0,
                         got |-> NoPayload, ret |-> _SEARCH_CACHE[q].results]
         /\ callsOf' = (q :> [at |-> now, fetched |-> 0]) @@ callsOf
         /\ UNCHANGED <<now, _SEARCH_CACHE>>
    ELSE LET results == invoke_duckduckgo_news_search(q, DefaultNum, w).ret IN
         /\ _SEARCH_CACHE' = StoreEntry(_SEARCH_CACHE, q, now, results)
         /\ lastCall' = [kind |-> "call", query |-> qy, key |-> q, at |-> now,
                         before |-> EntryOf(_SEARCH_CACHE, q),
                         prev |-> PrevCall(callsOf, q), fetched |-> 1,
                         got |-> results, ret |-> results]
         /\ callsOf' = (q :> [at |-> now, fetched |-> 1]) @@ callsOf
         /\ UNCHANGED now

CacheCall(qy, w) ==
    /\ GetSearchResultsRealtime(qy, w)
    /\ UNCHANGED <<searchVars, keyVars, raceVars>>

\* time passes between calls
Tick(t) ==
    /\ t > now
    /\ now' = t
    /\ UNCHANGED <<_SEARCH_CACHE, lastCall, callsOf, searchVars, keyVars, raceVars>>

InitCache ==
    /\ query = <<>>
    /\ num = DefaultNum
    /\ web = [status |-> 200, raises |-> "none", blocks |-> <<>>]
    /\ pc = "idle"
    /\ payload = NoPayload
    /\ requests = 0
    /\ display = <<>>
    /\ settings = NoSettings
    /\ context = <<>>
    /\ messages = <<>>
    /\ now = 0
    /\ _SEARCH_CACHE = <<>>
    /\ lastCall = NoCall
    /\ callsOf = <<>>
    /\ ncalls = 0
    /\ wanted = [last |-> NoSettings, prev |-> NoSettings, of |-> <<>>]
    /\ callers = [c \in 1..MaxCallers |-> [pc |-> "idle"]]
    /\ fetches = {}
    /\ origin = <<>>

NextCache ==
    \/ \E qy \in Queries, w \in CacheWebs : CacheCall(qy, w)
    \/ \E t \in Times : Tick(t)

SpecCache == InitCache /\ [][NextCache]_vars

(***************************************************************************)
(* The cache key: calls whose texts differ in padding, in case or in inner *)
(* whitespace, made by callers with different sidebar settings             *)
(***************************************************************************)
\* One text, the same text padded, one with a wider inner gap, one that
\* differs in case.
KeyQueries ==
    { <<"a", " ", "a">>, <<" ", "a", " ", "a", " ">>,
      <<"a", " ", " ", "a">>, <<"A", " ", "a">> }

\* What configure_sidebar returns: the defaults, and another choice of
\* result limit, region and recency window.  get_search_results_realtime
\* takes the query alone.
SidebarSettings ==
    { [only_chatbot |-> FALSE, num |-> 5, location |-> "us-en", time_filter |-> "w"],
      [only_chatbot |-> FALSE, num |-> 10, location |-> "in-en", time_filter |-> "d"] }

KeyCall(qy, st, w) ==
    /\ ncalls < MaxKeyCalls
    /\ GetSearchResultsRealtime(qy, w)
    /\ ncalls' = ncalls + 1
    /\ LET k == strip(or_empty(qy)) IN
         wanted' = [ last |-> st,
                     prev |-> IF k \in DOMAIN wanted.of THEN wanted.of[k] ELSE NoSettings,
                     of |-> (k :> st) @@ wanted.of ]
    /\ UNCHANGED <<searchVars, raceVars>>

NextKeys ==
    \/ \E qy \in KeyQueries, st \in SidebarSettings, w \in CacheWebs : KeyCall(qy, st, w)
    \/ \E t \in Times : Tick(t)

SpecKeys == InitCache /\ [][NextKeys]_vars

(***************************************************************************)
(* Concurrent callers of get_search_results_realtime.  A caller runs the   *)
(* function in four steps (read the clock, look the entry up, fetch, write *)
(* the entry); the steps of different callers interleave and time passes   *)
(* between any two steps.  now is the wall clock.                          *)
(***************************************************************************)
Callers == 1..MaxCallers

\* One key, typed in two ways.
RaceQueries == { <<"a">>, <<" ", "a">> }

\* q = (query or "").strip(); if not q: return []; now = time.time()
ReadClock(c, qy) ==
    /\ callers[c].pc = "idle"
    /\ LET q == strip(or_empty(qy)) IN
         callers' = [callers EXCEPT ![c] =
            IF q = <<>>
            THEN [pc |-> "done", q |-> q, hit |-> FALSE,
                  ret |-> EmptyList, started |-> now]
            ELSE [pc |-> "check", q |-> q, now |-> now]]
    /\ UNCHANGED <<now, _SEARCH_CACHE, lastCall, callsOf, keyVars, fetches, origin, searchVars>>

\* if q in _SEARCH_CACHE: ... if (now - ts) < SEARCH_TTL_SEC: return results
\* at is the wall-clock time of the lookup, started the start of the fetch
\* that produced the outcome returned.
CheckEntry(c) ==
    /\ callers[c].pc = "check"
    /\ LET me == callers[c] IN
         callers' = [callers EXCEPT ![c] =
            IF IsFresh(_SEARCH_CACHE, me.q, me.now)
            THEN [pc |-> "done", q |-> me.q, now |-> me.now,
                  hit |-> TRUE, ret |-> _SEARCH_CACHE[me.q].results,
                  started |-> origin[me.q].started, at |-> now]
            ELSE [pc |-> "fetch", q |-> me.q, now |-> me.now]]
    /\ UNCHANGED <<now, _SEARCH_CACHE, lastCall, callsOf, keyVars, fetches, origin, searchVars>>

\* results = invoke_duckduckgo_news_search(q)
Fetch(c, w) ==
    /\ callers[c].pc = "fetch"
    /\ LET me == callers[c]
           results == invoke_duckduckgo_news_search(me.q, DefaultNum, w).ret
       IN  /\ callers' = [callers EXCEPT ![c] =
                [pc |-> "write", q |-> me.q, now |-> me.now,
                 results |-> results, started |-> now]]
           /\ fetches' = fetches \cup
                { [key |-> me.q, started |-> now, results |-> results] }
    /\ UNCHANGED <<now, _SEARCH_CACHE, lastCall, callsOf, keyVars, origin, searchVars>>

\* _SEARCH_CACHE[q] = (now, results); return results
WriteEntry(c) ==
    /\ callers[c].pc = "write"
    /\ LET me == callers[c] IN
         /\ _SEARCH_CACHE' = StoreEntry(_SEARCH_CACHE, me.q, me.now, me.results)
         /\ origin' = (me.q :> [started |-> me.started, results |-> me.results]) @@ origin
         /\ callers' = [callers EXCEPT ![c] =
              [pc |-> "done", q |-> me.q,
               hit |-> FALSE, ret |-> me.results, started |-> me.started]]
    /\ UNCHANGED <<now, lastCall, callsOf, keyVars, fetches, searchVars>>

NextRace ==
    \/ \E c \in Callers, qy \in RaceQueries : ReadClock(c, qy)
    \/ \E c \in Callers : CheckEntry(c)
    \/ \E c \in Callers, w \in CacheWebs : Fetch(c, w)
    \/ \E c \in Callers : WriteEntry(c)
    \/ \E t \in Times : Tick(t)

SpecRace == InitCache /\ [][NextRace]_vars

(***************************************************************************)
(* Properties of the cache, checked under SpecCache                        *)
(***************************************************************************)
IsCall == lastCall.kind = "call" /\ lastCall.key # <<>>

\* The entry the call found was younger than the TTL.
FoundFresh ==
    /\ lastCall.before # NoEntry
    /\ lastCall.at - lastCall.before.ts < SEARCH_TTL_SEC

\* C1: a call that finds an entry younger than SEARCH_TTL_SEC returns the
\* stored outcome and does not invoke the search function; a call that finds
\* no entry, or one of age SEARCH_TTL_SEC or more, invokes it exactly once.
\* So two successive calls for one key less than the TTL apart make at most
\* one fetch between them, and a call the TTL or more after the preceding
\* call for its key fetches anew.
C1_HitWithinTtlElseOneFetch ==
    IsCall =>
      /\ FoundFresh => lastCall.fetched = 0 /\ lastCall.ret = lastCall.before.results
      /\ ~FoundFresh => lastCall.fetched = 1 /\ lastCall.ret = lastCall.got
      /\ lastCall.prev # NoCall =>
           /\ lastCall.at - lastCall.prev.at < SEARCH_TTL_SEC
                => lastCall.prev.fetched + lastCall.fetched <= 1
           /\ lastCall.at - lastCall.prev.at >= SEARCH_TTL_SEC
                => lastCall.fetched = 1

\* A key was fetched, hit within the TTL, and fetched again once the entry
\* had reached the TTL.
C1_Witness ==
    /\ IsCall
    /\ lastCall.before # NoEntry
    /\ lastCall.at - lastCall.before.ts >= SEARCH_TTL_SEC
    /\ lastCall.prev # NoCall
    /\ lastCall.prev.fetched = 0
    /\ lastCall.fetched = 1

\* C2: a failure outcome fetched on a miss is stored under the key, and a
\* later call for the key before the entry expires returns that same failure
\* without invoking the search function, leaving the entry as it was.
C2_FailureIsCachedAndReturned ==
    IsCall =>
      /\ (lastCall.fetched = 1 /\ lastCall.got.status = "error") =>
           /\ lastCall.key \in DOMAIN _SEARCH_CACHE
           /\ _SEARCH_CACHE[lastCall.key] = [ts |-> lastCall.at, results |-> lastCall.got]
           /\ lastCall.ret = lastCall.got
      /\ (FoundFresh /\ lastCall.before.results.status = "error") =>
           /\ lastCall.ret = lastCall.before.results
           /\ lastCall.fetched = 0
           /\ _SEARCH_CACHE[lastCall.key] = lastCall.before

\* A cached failure was returned by a later call, in the last second before
\* its entry expired.
C2_Witness ==
    /\ IsCall
    /\ FoundFresh
    /\ lastCall.at - lastCall.before.ts = SEARCH_TTL_SEC - 1
    /\ lastCall.fetched = 0
    /\ lastCall.ret = ErrorDict(FetchFailedMessage)

\* The text with its leading and trailing whitespace removed, said without
\* strip: the one stretch of the text that neither begins nor ends with
\* whitespace and has nothing but whitespace on either side.
Trimmed(text) ==
    IF text = NoneValue \/ \A i \in 1..Len(text) : text[i] \in Whitespace
    THEN <<>>
    ELSE LET i == CHOOSE i \in 1..Len(text) :
                    /\ text[i] \notin Whitespace
                    /\ \A h \in 1..(i - 1) : text[h] \in Whitespace
             j == CHOOSE j \in 1..Len(text) :
                    /\ text[j] \notin Whitespace
                    /\ \A h \in (j + 1)..Len(text) : text[h] \in Whitespace
         IN  SubSeq(text, i, j)

\* C13: a call changes _SEARCH_CACHE only on a miss, and then only the entry
\* of the trimmed key: a hit leaves the whole cache as it was (the entry's
\* timestamp is not refreshed), a query that is None, empty or whitespace
\* returns [] without invoking the search function and without touching the
\* cache, and no entry of another key is ever modified or removed.
C13_OnlyAMissWritesOnlyItsKey ==
    [][ /\ \A k \in DOMAIN _SEARCH_CACHE : k \in DOMAIN _SEARCH_CACHE'
        /\ \A k \in DOMAIN _SEARCH_CACHE' :
             EntryOf(_SEARCH_CACHE', k) # EntryOf(_SEARCH_CACHE, k) =>
               /\ lastCall'.kind = "call"
               /\ k # <<>>
               /\ k = Trimmed(lastCall'.query)
               /\ lastCall'.fetched = 1
               /\ ~ ( /\ k \in DOMAIN _SEARCH_CACHE
                      /\ now - _SEARCH_CACHE[k].ts < SEARCH_TTL_SEC )
               /\ _SEARCH_CACHE'[k] = [ts |-> now, results |-> lastCall'.got]
        /\ (lastCall'.kind = "call" /\ Trimmed(lastCall'.query) = <<>>) =>
             /\ lastCall'.fetched = 0
             /\ lastCall'.ret = EmptyList
      ]_vars

\* A second hit on an entry in the last second of its TTL, with an entry of
\* another key beside it: the entry still carries the timestamp of its
\* insertion.
C13_Witness ==
    /\ IsCall
    /\ FoundFresh
    /\ lastCall.fetched = 0
    /\ lastCall.prev # NoCall
    /\ lastCall.prev.fetched = 0
    /\ lastCall.at - lastCall.before.ts = SEARCH_TTL_SEC - 1
    /\ _SEARCH_CACHE[lastCall.key] = lastCall.before
    /\ Cardinality(DOMAIN _SEARCH_CACHE) = 2

(***************************************************************************)
(* Properties of the cache key, checked under SpecKeys                     *)
(***************************************************************************)
\* C12: the key of a call is its query text without leading and trailing
\* whitespace, case and inner whitespace kept, and nothing else.  The entry
\* under that key alone decides the call, whatever settings the caller or
\* the caller that stored the entry has: if it is younger than the TTL the
\* call returns its outcome without a fetch, otherwise the call fetches and
\* stores under that key, even when entries of texts that differ in case or
\* inner whitespace are fresh; those entries are left as they are.
C12_KeyIsTheTrimmedTextAlone ==
    [][ ncalls' = ncalls + 1 =>
          LET k == Trimmed(lastCall'.query) IN
          /\ lastCall'.key = k
          /\ k # <<>>
          /\ lastCall'.before = EntryOf(_SEARCH_CACHE, k)
          /\ IF k \in DOMAIN _SEARCH_CACHE /\ now - _SEARCH_CACHE[k].ts < SEARCH_TTL_SEC
             THEN /\ lastCall'.fetched = 0
                  /\ lastCall'.ret = _SEARCH_CACHE[k].results
                  /\ _SEARCH_CACHE' = _SEARCH_CACHE
             ELSE /\ lastCall'.fetched = 1
                  /\ lastCall'.ret = lastCall'.got
                  /\ DOMAIN _SEARCH_CACHE' = DOMAIN _SEARCH_CACHE \cup {k}
                  /\ _SEARCH_CACHE'[k] = [ts |-> now, results |-> lastCall'.got]
                  /\ \A k2 \in DOMAIN _SEARCH_CACHE :
                       k2 # k => _SEARCH_CACHE'[k2] = _SEARCH_CACHE[k2]
      ]_vars

\* A padded text, asked with other settings than the call that fetched for
\* its key, got that call's outcome without a fetch.
C12_Witness ==
    /\ IsCall
    /\ lastCall.query # lastCall.key
    /\ lastCall.fetched = 0
    /\ lastCall.prev # NoCall
    /\ lastCall.prev.fetched = 1
    /\ lastCall.before.ts = lastCall.prev.at
    /\ lastCall.ret = lastCall.before.results
    /\ wanted.prev # NoSettings
    /\ wanted.last # wanted.prev

(***************************************************************************)
(* Properties of concurrent callers, checked under SpecRace                *)
(***************************************************************************)
Returned(c) == callers[c].pc = "done" /\ callers[c].q # <<>>

\* Each caller returns an outcome of a fetch made for its key.
ReturnsAFetchForItsKey ==
    \A c \in Callers : Returned(c) =>
      \E f \in fetches :
        /\ f.key = callers[c].q
        /\ f.results = callers[c].ret
        /\ f.started = callers[c].started

\* The cache holds entries for keys that were asked for only, one per key,
\* each the outcome of a fetch made for that key.
OneEntryPerKey ==
    /\ DOMAIN _SEARCH_CACHE \subseteq { Trimmed(qy) : qy \in RaceQueries }
    /\ \A k \in DOMAIN _SEARCH_CACHE :
         \E f \in fetches :
           /\ f.key = k
           /\ f.results = _SEARCH_CACHE[k].results
           /\ _SEARCH_CACHE[k].ts <= f.started

\* No hit returns an outcome whose fetch began SEARCH_TTL_SEC or more before
\* the wall-clock time of the hit.
NoHitOlderThanTtlAtTheHit ==
    \A c \in Callers : (Returned(c) /\ callers[c].hit) =>
      callers[c].at - callers[c].started < SEARCH_TTL_SEC

\* No hit returns an outcome whose fetch began SEARCH_TTL_SEC or more before
\* the clock reading of the call that hits.
NoHitOlderThanTtlAtTheClockReading ==
    \A c \in Callers : (Returned(c) /\ callers[c].hit) =>
      callers[c].now - callers[c].started < SEARCH_TTL_SEC

\* C11 as claimed: under every interleaving of concurrent callers each caller
\* returns an outcome fetched for its key, the cache holds at most one entry
\* for the key, and no hit returns an outcome whose fetch started
\* SEARCH_TTL_SEC or more before the time of that hit.
C11_RaceOnlyDuplicatesFetches ==
    /\ ReturnsAFetchForItsKey
    /\ OneEntryPerKey
    /\ NoHitOlderThanTtlAtTheHit

\* What every interleaving does keep: the same, with the age of a hit's
\* outcome measured at the clock reading (now) of the call that hits, not at
\* the time of the lookup.
C11_RaceOnlyDuplicatesFetchesByClockReading ==
    /\ ReturnsAFetchForItsKey
    /\ OneEntryPerKey
    /\ NoHitOlderThanTtlAtTheClockReading

\* Two callers both missed and both fetched for one key; the entry holds the
\* outcome of the fetch that started first, written last.
C11_Witness ==
    \E c, d \in Callers :
      /\ c # d
      /\ Returned(c) /\ Returned(d)
      /\ callers[c].q = callers[d].q
      /\ ~callers[c].hit /\ ~callers[d].hit
      /\ callers[c].started < callers[d].started
      /\ callers[c].ret # callers[d].ret
      /\ _SEARCH_CACHE[callers[c].q].results = callers[c].ret

(***************************************************************************)
(* Properties of the search function and of what run_app does with its     *)
(* result, checked under Spec                                              *)
(***************************************************************************)
\* None, or nothing but whitespace
IsBlank(text) ==
    text = NoneValue \/ \A i \in 1..Len(text) : text[i] \in Whitespace

Searched == pc = "searched"

\* The transport delivered a page and the parser read it.
PageRead == web.raises = "none" /\ web.status = 200

Produced == GetResults(payload)

\* C3: when the search of run_app yields no success outcome (it failed,
\* raised, found nothing, or was switched off by only_chatbot), the context
\* handed to stream_answer is empty and no web-context message is built.
C3_NoPlaceholderAsContext ==
    (pc = "answered" /\ payload.status # "success") =>
      /\ context = <<>>
      /\ \A i \in 1..Len(messages) : messages[i].content[1] # ContextPrefix

\* C4: the records of a success outcome carry the ranks 1, 2, ..., n.
C4_RanksAreOutputPositions ==
    (Searched /\ payload.status = "success") =>
      \A i \in 1..Len(payload.results) : payload.results[i].num = i

\* The document positions of the blocks that have a title link, in order.
RECURSIVE WellFormedPositions(_, _)
WellFormedPositions(blocks, i) ==
    IF i > Len(blocks) THEN <<>>
    ELSE (IF blocks[i].title_tag THEN <<i>> ELSE <<>>)
           \o WellFormedPositions(blocks, i + 1)

\* C5: the records are the first min(resultLimit, well-formed blocks)
\* well-formed blocks of the page, in document order; a block without a
\* title link uses up none of the limit.
C5_SkippedBlocksDoNotCount ==
    (Searched /\ ~IsBlank(query) /\ PageRead) =>
      LET wf == WellFormedPositions(web.blocks, 1)
          n == IF num < Len(wf) THEN num ELSE Len(wf)
      IN  /\ Len(Produced) = n
          /\ \A i \in 1..n : Produced[i].title = TitleText(wf[i])

\* C6: a query that is None, empty or only whitespace gets the empty-query
\* failure, and no network request is made.
C6_BlankQueryMakesNoRequest ==
    (Searched /\ IsBlank(query)) =>
      /\ payload = ErrorDict(EmptyQueryMessage)
      /\ requests = 0

\* A whitespace-only query was answered while the network held a page of
\* results for the asking.
C6_Witness ==
    /\ Searched
    /\ query = <<" ">>
    /\ PageRead
    /\ web.blocks # <<>>
    /\ web.blocks[1].title_tag
    /\ payload.status = "error"

TransportFailed ==
    \/ web.raises \in {"ConnectionError", "Timeout"}
    \/ web.raises = "none" /\ (web.status < 200 \/ web.status > 299)

\* C7: every transport failure (a non-2xx status, a connection error, a
\* timeout) gives the fetch-failed failure, which is not the no-results
\* failure.
C7_TransportFailureIsFetchFailed ==
    (Searched /\ ~IsBlank(query) /\ TransportFailed) =>
      /\ payload = ErrorDict(FetchFailedMessage)
      /\ payload # ErrorDict(NoResultsMessage)

FailureMessages == {EmptyQueryMessage, FetchFailedMessage, NoResultsMessage}

\* C8: for a non-empty query text and a positive result limit, whatever the
\* network and the parser do, the function returns a success outcome of 1 to
\* resultLimit records or a failure outcome; no exception leaves it and no
\* success outcome is empty.
C8_SuccessOrFailureNeverACrash ==
    (Searched /\ or_empty(query) # <<>> /\ num >= 1) =>
      \/ /\ payload.status = "success"
         /\ DOMAIN payload = {"status", "results"}
         /\ Len(payload.results) >= 1
         /\ Len(payload.results) <= num
      \/ /\ payload.status = "error"
         /\ DOMAIN payload = {"status", "message"}
         /\ payload.message \in FailureMessages

\* The limit cut a page short: as many records as the limit allows, from a
\* page that holds more blocks.
C8_Witness ==
    /\ Searched
    /\ payload.status = "success"
    /\ Len(payload.results) = num
    /\ Len(web.blocks) > num

\* C9: every record of a success outcome has a non-empty summary, and the
\* record of a block without a snippet element has "No summary available.".
C9_SummaryNeverEmpty ==
    (Searched /\ payload.status = "success") =>
      \A i \in 1..Len(payload.results) :
        /\ payload.results[i].summary # ""
        /\ web.blocks[payload.results[i].num].snippet = NoTag
             => payload.results[i].summary = NoSummary

\* C10: the rendering step (format_news_results_html, and
\* fetch_search_results in run_app) returns the empty string for every
\* outcome that is not a success; a non-empty display string comes from a
\* success outcome only.
C10_FailureRendersEmpty ==
    (pc \in {"rendered", "answered"} /\ payload.status # "success") =>
      display = <<>>

====
